---- MODULE Spec2Model ----
(***************************************************************************)
(* The CloudWatch Logs -> Kinesis -> Firehose -> Splunk pipeline that the  *)
(* CloudWatchToSplunk construct declares, as a state machine.              *)
(*                                                                         *)
(* The construct's code fixes the configuration (which log groups are      *)
(* subscribed, what the delivery stream reads, whether the Lambda          *)
(* processor, the error log and the backup bucket are wired in, and what   *)
(* the delivery stream role may do).  The engine that runs under that      *)
(* configuration (buffering, transform invocation, forwarding, retry,      *)
(* backup) is a managed service; its steps follow the pipeline contract of *)
(* the specification and read the configuration at every decision.         *)
(*                                                                         *)
(* The stack that hosts the pipeline is modelled as well: the steps of its *)
(* constructor, the public-IP lookup the constructor starts and the        *)
(* callback that adds the deployer's ingress rules, and the creation of    *)
(* the pipeline's resources in the order their dependencies allow.         *)
(* Spec is the running pipeline, StackSpec the construction and deployment *)
(* of the stack, IpSpec the lookup on every response body.                 *)
(***************************************************************************)
EXTENDS Integers, Sequences, FiniteSets, TLC

\* ------------------------------------------------------------------ bounds

\* Log events emitted in one run.
MaxRecords == 2
\* Largest number of stream records the pipeline buffers into one batch.
MaxBatch == 2
\* Number of retries after the first failed delivery attempt of a batch.
RetryBudget == 1

\* Largest number of dot-separated parts in the address of a lookup response.
MaxParts == 4

\* The log groups that exist in the account; props.logGroups is drawn from them.
CandidateLogGroups == {"LogGroup", "OtherLogGroup"}
\* The log streams of a log group.
LogStreamNames == {"ecs"}
\* What a log line looks like (the nginx sample emits both).
EventKinds == {"json", "raw"}

\* --------------------------------------------------- declared resources

IngestStream == "IngestStream"
BackupBucket == "BackupBucket"
KinesisDeliveryStreamLogs == "KinesisDeliveryStreamLogs"
KinesisErrorLogStream == "errors"
CloudWatchTransformer == "CloudWatchTransformer"

\* FilterPattern.allEvents(): the empty pattern.
AllEventsPattern == ""

\* Whether a subscription filter pattern matches a log event: the empty
\* pattern matches every event, any other pattern is a term the event has to hold.
PatternMatches(pattern, kind) == pattern = "" \/ pattern = kind

\* logGroup.addSubscriptionFilter('kinesis', ...), once per log group of props.logGroups.
SubscriptionFilterFirstOnly(lgs) ==
    IF lgs = {} THEN {}
    ELSE {[logGroup |-> CHOOSE g \in lgs : TRUE,
           destination |-> IngestStream,
           filterPattern |-> AllEventsPattern]}

addSubscriptionFilter(lgs) ==
    {[logGroup |-> g, destination |-> IngestStream, filterPattern |-> AllEventsPattern] : g \in lgs}

\* The partition a subscription filter puts a log event in.  The filter sets no
\* distribution, so log events are grouped by log stream.
PartitionOfRandom(g, s, r) ==
    <<(IF r % 2 = 0 THEN g ELSE CHOOSE h \in CandidateLogGroups : h # g), s>>

PartitionOf(g, s, r) == <<g, s>>

Partitions == CandidateLogGroups \X LogStreamNames

\* splunkDestinationConfiguration.processingConfiguration.enabled, with its Lambda processor.
ProcessingDisabled == FALSE

ProcessingEnabled == TRUE

\* splunkDestinationConfiguration.cloudWatchLoggingOptions.
LoggingDisabled == [enabled |-> FALSE, logGroupName |-> KinesisDeliveryStreamLogs,
                    logStreamName |-> KinesisErrorLogStream]

CloudWatchLoggingOptions == [enabled |-> TRUE, logGroupName |-> KinesisDeliveryStreamLogs,
                             logStreamName |-> KinesisErrorLogStream]

\* splunkDestinationConfiguration.s3BackupMode is not set: only failed events are backed up.
S3BackupModeAllEvents == "AllEvents"

S3BackupMode == "FailedEventsOnly"

\* kinesisStreamSourceConfiguration.kinesisStreamArn.
KinesisStreamArn == IngestStream

\* splunkDestinationConfiguration.s3Configuration.bucketArn.
S3BucketArn == BackupBucket

\* What the delivery stream role may do: the inline 'Ingest' policy and the three grants.
RoleWithoutBucketGrant ==
    {<<"kinesis:GetRecords", IngestStream>>,
     <<"lambda:InvokeFunction", CloudWatchTransformer>>,
     <<"logs:PutLogEvents", KinesisDeliveryStreamLogs>>}

DeliveryStreamRole ==
    {<<"kinesis:GetRecords", IngestStream>>,
     <<"s3:PutObject", BackupBucket>>,
     <<"lambda:InvokeFunction", CloudWatchTransformer>>,
     <<"logs:PutLogEvents", KinesisDeliveryStreamLogs>>}

Allowed(action, resource) == <<action, resource>> \in DeliveryStreamRole

\* ------------------------------------------------------- getPublicIp

\* Text is a sequence of characters.
Digits == {"0", "1", "2", "3", "4", "5", "6", "7", "8", "9"}

\* The positions right after a match, starting at position i of text s, of
\* one alternative of the octet group of regexExp.  An alternative is a
\* sequence of character classes.
ClassesEnd(s, i, classes) ==
    IF /\ i + Len(classes) - 1 <= Len(s)
       /\ \A k \in 1..Len(classes) : s[i + k - 1] \in classes[k]
    THEN {i + Len(classes)}
    ELSE {}

\* ([0-9]|[1-9][0-9]|1[0-9]{2}|2[0-4][0-9]|25[0-5])
OctetAlternatives ==
    {<<Digits>>,
     <<Digits \ {"0"}, Digits>>,
     <<{"1"}, Digits, Digits>>,
     <<{"2"}, {"0", "1", "2", "3", "4"}, Digits>>,
     <<{"2"}, {"5"}, {"0", "1", "2", "3", "4", "5"}>>}

OctetEnds(s, i) == UNION {ClassesEnd(s, i, a) : a \in OctetAlternatives}

\* (octet\.) : an octet followed by a dot.
OctetDotEnds(s, i) == {j + 1 : j \in {k \in OctetEnds(s, i) : k <= Len(s) /\ s[k] = "."}}

\* regexExp.test(s): ^(octet\.){3}octet$ on the whole text; the expression
\* is built anew on every call, so the search starts at the first character.
RegexTest(s) ==
    LET e1 == OctetDotEnds(s, 1)
        e2 == UNION {OctetDotEnds(s, i) : i \in e1}
        e3 == UNION {OctetDotEnds(s, i) : i \in e2}
        e4 == UNION {OctetEnds(s, i) : i \in e3}
    IN Len(s) + 1 \in e4

\* The value of a field of the parsed response: a string, an array of one
\* string, a number, or nothing (the field is missing).
Field(type, text) == [type |-> type, text |-> text]
NoField == Field("undefined", <<>>)

\* String(v), the conversion regexExp.test and a template literal apply to
\* their argument: a string is itself, an array is its elements joined by
\* commas (one element: that element), a number is its digits, a missing
\* field is the text "undefined".
StringOf(v) ==
    IF v.type = "undefined" THEN <<"u", "n", "d", "e", "f", "i", "n", "e", "d">>
    ELSE v.text

\* What a promise is settled with.
Pending == [state |-> "pending", value |-> NoField, message |-> <<>>]
Idle == [state |-> "idle", value |-> NoField, message |-> <<>>]
Resolved(v) == [state |-> "resolved", value |-> v, message |-> <<>>]
Rejected(msg) == [state |-> "rejected", value |-> NoField, message |-> msg]

\* checkIfValidIP(ip): ip itself when the expression matches, else an error.
checkIfValidIP(ip) ==
    IF RegexTest(StringOf(ip))
    THEN Resolved(ip)
    ELSE Rejected(<<"Error: ", StringOf(ip), " does not look valid.">>)

CouldntGet == "Couldn't get your public IP: "

\* A response body: not JSON, the JSON value null, or a JSON object with or
\* without a field ip.
Body(kind, ip) == [kind |-> kind, ip |-> ip]
NoBody == Body("none", NoField)

\* getPublicIp, from the response body on: response.json(), then the check
\* of data.ip, and the catch that wraps whatever either of them threw.
getPublicIp(body) ==
    LET inner == IF body.kind = "notjson" THEN Rejected(<<"SyntaxError">>)
                 ELSE IF body.kind = "null" THEN Rejected(<<"TypeError">>)
                 ELSE checkIfValidIP(body.ip)
    IN IF inner.state = "rejected"
       THEN Rejected(<<CouldntGet>> \o inner.message)
       ELSE inner

\* ---------------------------------------------------------- the stack

\* The ports of the Splunk service and of the nginx sample.
SPLUNK_WEB_PORT == 8000
SPLUNK_HEC_PORT == 8088
NginxPort == 80

\* The text of a dotted address and of a CIDR range.
Dotted(a, b, c, d) == a \o <<".">> \o b \o <<".">> \o c \o <<".">> \o d
Cidr(addr, bits) == addr \o <<"/">> \o bits

\* Peer.anyIpv4().
AnyIpv4 == Cidr(Dotted(<<"0">>, <<"0">>, <<"0">>, <<"0">>), <<"0">>)

\* The three ranges allowed as 'Kinesis Ireland'.
KinesisIreland ==
    {Cidr(Dotted(<<"3", "4">>, <<"2", "4", "1">>, <<"1", "9", "7">>, last), <<"2", "7">>) :
        last \in {<<"3", "2">>, <<"6", "4">>, <<"9", "6">>}}

\* Peer.ipv4(`${ip}/32`).
DeployerPeer(ip) == Cidr(StringOf(ip), <<"3", "2">>)

\* connections.allowFrom(peer, Port.tcp(port)) on a load balancer.
Rule(lb, peer, port) == [lb |-> lb, peer |-> peer, port |-> port]

\* A listener that is open admits every address on its port.
ListenerRules(lb, port, open) == IF open THEN {Rule(lb, AnyIpv4, port)} ELSE {}

\* openListener of the Splunk service, open of its HEC listener, openListener
\* of the nginx service.
SplunkOpenListener == FALSE

SplunkHECListenerOpenByDefault == TRUE

SplunkHECListenerOpen == FALSE

NginxOpenListener == FALSE

SplunkServiceRules ==
    ListenerRules("SplunkService", SPLUNK_WEB_PORT, SplunkOpenListener)
        \cup ListenerRules("SplunkService", SPLUNK_HEC_PORT, SplunkHECListenerOpen)

NginxServiceRules == ListenerRules("NginxService", NginxPort, NginxOpenListener)

KinesisRules == {Rule("SplunkService", c, SPLUNK_HEC_PORT) : c \in KinesisIreland}

\* The three rules of the callback of getPublicIp().
DeployerRules(ip) ==
    {Rule("SplunkService", DeployerPeer(ip), SPLUNK_WEB_PORT),
     Rule("SplunkService", DeployerPeer(ip), SPLUNK_HEC_PORT),
     Rule("NginxService", DeployerPeer(ip), NginxPort)}

\* The constructs the stack's constructor creates, and the last of them.
BaseConstructs == {"Vpc", "LogGroup", "Cluster", "HostedZone"}
AllConstructs == BaseConstructs \cup {"SplunkService", "NginxService", "CloudWatchToSplunk"}

\* The resources the CloudWatchToSplunk construct declares.
Resources ==
    {IngestStream, "SubscriptionFilter", BackupBucket, KinesisDeliveryStreamLogs,
     "KinesisErrorLogStream", CloudWatchTransformer, "DeliveryStreamRole",
     "DeliveryStreamRoleDefaultPolicy", "DeliveryStream"}

\* The statements of the inline policy 'Ingest' and of the three grants.
IngestStatements ==
    {<<"kinesis:DescribeStream", IngestStream>>,
     <<"kinesis:GetShardIterator", IngestStream>>,
     <<"kinesis:GetRecords", IngestStream>>}

GrantStatements ==
    {<<"s3:PutObject", BackupBucket>>,
     <<"lambda:InvokeFunction", CloudWatchTransformer>>,
     <<"logs:PutLogEvents", KinesisDeliveryStreamLogs>>}

\* The resource that carries the 'Ingest' statements: they are an inline
\* policy of the role.  (Statements added to a role after its construction
\* go to its default policy, a resource of its own.)
IngestInDefaultPolicy == "DeliveryStreamRoleDefaultPolicy"

IngestCarriedBy == "DeliveryStreamRole"

\* The statements a resource carries.
StatementsOf(res) ==
    (IF res = IngestCarriedBy THEN IngestStatements ELSE {})
        \cup (IF res = "DeliveryStreamRoleDefaultPolicy" THEN GrantStatements ELSE {})

\* The resources whose attributes the properties of a resource refer to.
References(res) ==
    CASE res = "SubscriptionFilter" -> {IngestStream}
      [] res = "KinesisErrorLogStream" -> {KinesisDeliveryStreamLogs}
      [] res = "DeliveryStreamRole" ->
             IF IngestCarriedBy = "DeliveryStreamRole" THEN {IngestStream} ELSE {}
      [] res = "DeliveryStreamRoleDefaultPolicy" ->
             {"DeliveryStreamRole", BackupBucket, CloudWatchTransformer,
              KinesisDeliveryStreamLogs}
                 \cup (IF IngestCarriedBy = "DeliveryStreamRoleDefaultPolicy"
                       THEN {IngestStream} ELSE {})
      [] res = "DeliveryStream" ->
             {IngestStream, "DeliveryStreamRole", KinesisDeliveryStreamLogs,
              "KinesisErrorLogStream", CloudWatchTransformer, BackupBucket}
      [] OTHER -> {}

\* splunkDeliveryStream.addDependsOn(deliveryStreamRole.node.defaultChild).
addDependsOn == {<<"DeliveryStream", "DeliveryStreamRole">>}

\* What has to exist before a resource is created.
DependsOn(res) == References(res) \cup {d \in Resources : <<res, d>> \in addDependsOn}

\* What the delivery stream role may do once the resources of set c exist.
PermissionsIn(c) ==
    IF "DeliveryStreamRole" \in c
    THEN UNION {StatementsOf(res) : res \in c}
    ELSE {}

\* A sample address of the deployer.
SampleIp == Field("string", Dotted(<<"1", "0">>, <<"0">>, <<"2", "5", "5">>, <<"9">>))

\* ------------------------------------------------------------------ state

VARIABLES
    logGroups,      \* props.logGroups
    filters,        \* the subscription filters the construct added
    indexerAck,     \* whether the operator enabled indexer acknowledgement on the
                    \* endpoint, which is done by hand once the stack is deployed
    emitted,        \* number of log events emitted so far; they are numbered 1..emitted
    recInfo,        \* per log event: its log group and stream, and whether a filter forwarded it
    ingest,         \* per partition of the ingest stream: the unread records, oldest first
    expired,        \* records dropped from the ingest stream, unread, by retention
    slot,           \* per partition: the batch its reader is processing (0: none)
    nextBatch,      \* the next batch identity
    batch,          \* per batch identity: the batch and what happened to it
    endpoint,       \* records the endpoint accepted, in the order it accepted them
    backup,         \* per batch identity: the objects written to the backup bucket
    errorLog,       \* per batch identity: the entries in the error log stream
    pc,             \* where the stack's constructor is
    tree,           \* the constructs created so far
    ingress,        \* the ingress rules of the load balancers
    response,       \* the body of the response to the public-IP lookup
    lookup,         \* the promise getPublicIp() returned
    thenRan,        \* whether the callback of getPublicIp().then has run
    created         \* the resources of the pipeline the deployment has created

stackVars == <<pc, tree, ingress, response, lookup, thenRan, created>>

vars == <<logGroups, filters, indexerAck, emitted, recInfo, ingest, expired,
          slot, nextBatch, batch, endpoint, backup, errorLog, stackVars>>

Records == 1..MaxRecords
BatchIds == 1..MaxRecords
Dispositions == {"Ok", "Dropped", "ProcessingFailed"}

NoRec == [group |-> "", stream |-> "", forwarded |-> FALSE]

NoBatch == [part |-> <<"", "">>, recs |-> <<>>, stage |-> "None", transform |-> "None",
            disp |-> <<>>, retries |-> 0, sends |-> 0, accepts |-> 0, ackLost |-> 0,
            downSeen |-> FALSE]

Range(s) == {s[i] : i \in 1..Len(s)}

\* The records of batch b that the transform marked for forwarding, in batch order.
Fwd(b) == SelectSeq(batch[b].recs, LAMBDA r : batch[b].disp[r] = "Ok")

\* The stack as deployed: the constructor has returned, the lookup gave the
\* deployer's address, the callback has run and every resource exists.
StackDeployed ==
    /\ pc = "returned"
    /\ tree = AllConstructs
    /\ ingress = SplunkServiceRules \cup KinesisRules \cup NginxServiceRules
                    \cup DeployerRules(SampleIp)
    /\ response = Body("object", SampleIp)
    /\ lookup = Resolved(SampleIp)
    /\ thenRan = TRUE
    /\ created = Resources

Init ==
    /\ StackDeployed
    /\ logGroups \in SUBSET CandidateLogGroups
    /\ filters = addSubscriptionFilter(logGroups)
    /\ indexerAck \in BOOLEAN
    /\ emitted = 0
    /\ recInfo = [r \in Records |-> NoRec]
    /\ ingest = [p \in Partitions |-> <<>>]
    /\ expired = {}
    /\ slot = [p \in Partitions |-> 0]
    /\ nextBatch = 1
    /\ batch = [b \in BatchIds |-> NoBatch]
    /\ endpoint = <<>>
    /\ backup = [b \in BatchIds |-> <<>>]
    /\ errorLog = [b \in BatchIds |-> <<>>]

\* ---------------------------------------------------------------- helpers

\* An entry in the error log stream, when logging is enabled and permitted.
LogError(b, class) ==
    IF CloudWatchLoggingOptions.enabled
       /\ Allowed("logs:PutLogEvents", CloudWatchLoggingOptions.logGroupName)
    THEN [errorLog EXCEPT ![b] = Append(@, class)]
    ELSE errorLog

\* An object with the records recs of batch b in the configured backup bucket.
BackupWrite(bk, b, recs) ==
    IF S3BucketArn = BackupBucket /\ Allowed("s3:PutObject", S3BucketArn)
    THEN [bk EXCEPT ![b] = Append(@, recs)]
    ELSE bk

\* The objects of backup store bk that hold record r, as <<batch, index>>.
BackupObjectsWithIn(bk, r) ==
    UNION {{<<b, i>> : i \in {j \in 1..Len(bk[b]) : r \in Range(bk[b][j])}} :
              b \in BatchIds}

\* ------------------------------------------------------------ log sources

\* A log source emits one log event in log stream s of log group g.  Every
\* subscription filter of g whose pattern matches hands it to its destination.
Emit(g, s, k) ==
    /\ emitted < MaxRecords
    /\ LET r == emitted + 1
           hit == \E f \in filters : /\ f.logGroup = g
                                     /\ PatternMatches(f.filterPattern, k)
                                     /\ f.destination = IngestStream
           p == PartitionOf(g, s, r)
       IN /\ emitted' = r
          /\ recInfo' = [recInfo EXCEPT ![r] =
                            [group |-> g, stream |-> s, forwarded |-> hit]]
          /\ ingest' = IF hit THEN [ingest EXCEPT ![p] = Append(@, r)] ELSE ingest
    /\ UNCHANGED <<stackVars, logGroups, filters, indexerAck, expired, slot, nextBatch,
                   batch, endpoint, backup, errorLog>>

\* A retention that marks the oldest unread record expired and leaves it in
\* the stream.
RetentionExpireKeepsRecord(p) ==
    /\ ingest[p] # <<>>
    /\ Head(ingest[p]) \notin expired
    /\ expired' = expired \cup {Head(ingest[p])}
    /\ UNCHANGED <<stackVars, logGroups, filters, indexerAck, emitted, recInfo, ingest, slot,
                   nextBatch, batch, endpoint, backup, errorLog>>

\* The oldest unread record of a partition outlives the retention window.
RetentionExpire(p) ==
    /\ ingest[p] # <<>>
    /\ expired' = expired \cup {Head(ingest[p])}
    /\ ingest' = [ingest EXCEPT ![p] = Tail(@)]
    /\ UNCHANGED <<stackVars, logGroups, filters, indexerAck, emitted, recInfo, slot,
                   nextBatch, batch, endpoint, backup, errorLog>>

\* ------------------------------------------------------ delivery pipeline

\* The reader of partition p buffers the n oldest unread records into a new batch.
ReadBatch(p, n) ==
    /\ slot[p] = 0
    /\ n \in 1..MaxBatch
    /\ n <= Len(ingest[p])
    /\ KinesisStreamArn = IngestStream
    /\ Allowed("kinesis:GetRecords", KinesisStreamArn)
    /\ batch' = [batch EXCEPT ![nextBatch] =
                    [NoBatch EXCEPT !.part = p,
                                    !.recs = SubSeq(ingest[p], 1, n),
                                    !.stage = "Buffered"]]
    /\ ingest' = [ingest EXCEPT ![p] = SubSeq(@, n + 1, Len(@))]
    /\ slot' = [slot EXCEPT ![p] = nextBatch]
    /\ nextBatch' = nextBatch + 1
    /\ UNCHANGED <<stackVars, logGroups, filters, indexerAck, emitted, recInfo, expired,
                   endpoint, backup, errorLog>>

\* The Transform Function raises an error or returns a malformed response:
\* the whole batch fails, the error is logged, the batch is backed up.
TransformFail(p) ==
    /\ slot[p] # 0
    /\ ProcessingEnabled
    /\ LET b == slot[p]
       IN /\ batch[b].stage = "Buffered"
          /\ batch' = [batch EXCEPT ![b].stage = "BackedUp", ![b].transform = "Failed"]
          /\ errorLog' = LogError(b, "Lambda.FunctionError")
          /\ backup' = BackupWrite(backup, b, batch[b].recs)
    /\ slot' = [slot EXCEPT ![p] = 0]
    /\ UNCHANGED <<stackVars, logGroups, filters, indexerAck, emitted, recInfo, ingest,
                   expired, nextBatch, endpoint>>

\* The stage a batch is in once the transform returned dispositions d.
StageAfter(recs, d) ==
    IF \E r \in Range(recs) : d[r] = "Ok" THEN "Pending"
    ELSE IF \E r \in Range(recs) : d[r] = "ProcessingFailed" THEN "BackedUp"
    ELSE "Delivered"

\* The processing step of a buffered batch: with the Lambda processor enabled
\* the Transform Function returns a disposition per record; records marked
\* ProcessingFailed go to the backup bucket.  Without a processor the batch
\* is forwarded as read.
Process(p) ==
    /\ slot[p] # 0
    /\ LET b == slot[p]
           recs == batch[b].recs
       IN /\ batch[b].stage = "Buffered"
          /\ IF ProcessingEnabled
             THEN /\ Allowed("lambda:InvokeFunction", CloudWatchTransformer)
                  /\ \E d \in [Range(recs) -> Dispositions] :
                       LET failed == SelectSeq(recs, LAMBDA r : d[r] = "ProcessingFailed")
                           all == SelectSeq(recs, LAMBDA r : d[r] = "Ok")
                           bk1 == IF failed # <<>> THEN BackupWrite(backup, b, failed)
                                  ELSE backup
                       IN /\ batch' = [batch EXCEPT ![b].stage = StageAfter(recs, d),
                                                    ![b].transform = "Ok",
                                                    ![b].disp = d]
                          /\ backup' = IF S3BackupMode = "AllEvents" /\ all # <<>>
                                       THEN BackupWrite(bk1, b, all) ELSE bk1
                          /\ slot' = [slot EXCEPT ![p] =
                                         IF StageAfter(recs, d) = "Pending" THEN b ELSE 0]
             ELSE /\ batch' = [batch EXCEPT ![b].stage = "Pending",
                                            ![b].transform = "Skipped",
                                            ![b].disp = [r \in Range(recs) |-> "Ok"]]
                  /\ backup' = backup
                  /\ slot' = slot
    /\ UNCHANGED <<stackVars, logGroups, filters, indexerAck, emitted, recInfo, ingest,
                   expired, nextBatch, endpoint, errorLog>>

\* A retry policy that allows one retry too many.
FailAttemptOneTooMany(p, b, h, class) ==
    /\ errorLog' = LogError(b, class)
    /\ IF h.retries <= RetryBudget
       THEN /\ batch' = [batch EXCEPT ![b] = [h EXCEPT !.stage = "Retrying",
                                                       !.retries = @ + 1]]
            /\ backup' = backup
            /\ slot' = slot
       ELSE /\ batch' = [batch EXCEPT ![b] = [h EXCEPT !.stage = "BackedUp"]]
            /\ backup' = BackupWrite(backup, b, Fwd(b))
            /\ slot' = [slot EXCEPT ![p] = 0]

\* A retry policy that backs the batch up when the budget is spent and then
\* sends it once more.
FailAttemptThenReplay(p, b, h, class) ==
    /\ errorLog' = LogError(b, class)
    /\ IF h.retries < RetryBudget
       THEN /\ batch' = [batch EXCEPT ![b] = [h EXCEPT !.stage = "Retrying",
                                                       !.retries = @ + 1]]
            /\ backup' = backup
            /\ slot' = slot
       ELSE /\ batch' = [batch EXCEPT ![b] =
                            [h EXCEPT !.stage = IF BackupObjectsWithIn(backup, Head(Fwd(b))) = {}
                                                THEN "Retrying" ELSE "BackedUp"]]
            /\ backup' = IF BackupObjectsWithIn(backup, Head(Fwd(b))) = {}
                         THEN BackupWrite(backup, b, Fwd(b)) ELSE backup
            /\ slot' = IF BackupObjectsWithIn(backup, Head(Fwd(b))) = {}
                       THEN slot ELSE [slot EXCEPT ![p] = 0]

\* A delivery attempt the pipeline sees as failed: retried while the retry
\* budget lasts, then the batch is written to the backup bucket.  h is the
\* batch with the attempt recorded.
FailAttempt(p, b, h, class) ==
    /\ errorLog' = LogError(b, class)
    /\ IF h.retries < RetryBudget
       THEN /\ batch' = [batch EXCEPT ![b] = [h EXCEPT !.stage = "Retrying",
                                                       !.retries = @ + 1]]
            /\ backup' = backup
            /\ slot' = slot
       ELSE /\ batch' = [batch EXCEPT ![b] = [h EXCEPT !.stage = "BackedUp"]]
            /\ backup' = BackupWrite(backup, b, Fwd(b))
            /\ slot' = [slot EXCEPT ![p] = 0]

\* The endpoint accepts the batch and the pipeline registers the success.
DeliverOk(p) ==
    /\ slot[p] # 0
    /\ LET b == slot[p]
       IN /\ batch[b].stage \in {"Pending", "Retrying"}
          /\ endpoint' = endpoint \o Fwd(b)
          /\ batch' = [batch EXCEPT ![b].stage = "Delivered",
                                    ![b].sends = @ + 1,
                                    ![b].accepts = @ + 1]
    /\ slot' = [slot EXCEPT ![p] = 0]
    /\ UNCHANGED <<stackVars, logGroups, filters, indexerAck, emitted, recInfo, ingest,
                   expired, nextBatch, backup, errorLog>>

\* An acknowledgement lost although indexer acknowledgement is enabled.
DeliverAckLostDespiteIndexerAck(p) ==
    /\ slot[p] # 0
    /\ LET b == slot[p]
       IN /\ batch[b].stage \in {"Pending", "Retrying"}
          /\ endpoint' = endpoint \o Fwd(b)
          /\ FailAttempt(p, b, [batch[b] EXCEPT !.sends = @ + 1,
                                                !.accepts = @ + 1,
                                                !.ackLost = @ + 1],
                         "Splunk.AckTimeout")
    /\ UNCHANGED <<stackVars, logGroups, filters, indexerAck, emitted, recInfo, ingest,
                   expired, nextBatch>>

\* The endpoint accepts the batch but its acknowledgement is lost: without
\* indexer acknowledgement the pipeline cannot tell this from a failure.
DeliverAckLost(p) ==
    /\ slot[p] # 0
    /\ ~indexerAck
    /\ LET b == slot[p]
       IN /\ batch[b].stage \in {"Pending", "Retrying"}
          /\ endpoint' = endpoint \o Fwd(b)
          /\ FailAttempt(p, b, [batch[b] EXCEPT !.sends = @ + 1,
                                                !.accepts = @ + 1,
                                                !.ackLost = @ + 1],
                         "Splunk.AckTimeout")
    /\ UNCHANGED <<stackVars, logGroups, filters, indexerAck, emitted, recInfo, ingest,
                   expired, nextBatch>>

\* A delivery attempt meets an endpoint that is unreachable, fails the TLS
\* handshake or answers with a non-success status.
DeliverFail(p) ==
    /\ slot[p] # 0
    /\ LET b == slot[p]
       IN /\ batch[b].stage \in {"Pending", "Retrying"}
          /\ FailAttempt(p, b, [batch[b] EXCEPT !.sends = @ + 1, !.downSeen = TRUE],
                         "Splunk.ConnectionFailed")
    /\ UNCHANGED <<stackVars, logGroups, filters, indexerAck, emitted, recInfo, ingest,
                   expired, nextBatch, endpoint>>

Next ==
    \/ \E g \in CandidateLogGroups, s \in LogStreamNames, k \in EventKinds : Emit(g, s, k)
    \/ \E p \in Partitions : RetentionExpire(p)
    \/ \E p \in Partitions, n \in 1..MaxBatch : ReadBatch(p, n)
    \/ \E p \in Partitions : TransformFail(p)
    \/ \E p \in Partitions : Process(p)
    \/ \E p \in Partitions : DeliverOk(p)
    \/ \E p \in Partitions : DeliverAckLost(p)
    \/ \E p \in Partitions : DeliverFail(p)

Spec == Init /\ [][Next]_vars

\* The pipeline runs continuously: on every partition a buffered batch is
\* processed (the transform returns or fails within its timeout) and a batch
\* awaiting delivery gets its next attempt, whatever the attempt's outcome.
Fairness ==
    \A p \in Partitions :
        /\ WF_vars(TransformFail(p) \/ Process(p))
        /\ WF_vars(DeliverOk(p) \/ DeliverAckLost(p) \/ DeliverFail(p))

FairSpec == Spec /\ Fairness

\* ------------------------------------------- the stack's construction

pipelineVars == <<indexerAck, emitted, recInfo, ingest, expired, slot, nextBatch,
                  batch, endpoint, backup, errorLog>>

\* The responses the lookup service may give while the stack is built.
LookupResponses ==
    {Body("object", SampleIp),
     Body("object", Field("string", Dotted(<<"8">>, <<"8">>, <<"4">>, <<"4">>))),
     Body("object", Field("string", Dotted(<<"2", "5", "6">>, <<"1">>, <<"1">>, <<"1">>))),
     Body("object", Field("array", SampleIp.text)),
     Body("object", NoField),
     Body("null", NoField),
     Body("notjson", NoField)}

\* Before the program starts: nothing is constructed, nothing is deployed,
\* and the pipeline is not there.
StackInit ==
    /\ pc = "start"
    /\ tree = {}
    /\ ingress = {}
    /\ response = NoBody
    /\ lookup = Idle
    /\ thenRan = FALSE
    /\ created = {}
    /\ logGroups = {}
    /\ filters = {}
    /\ indexerAck = FALSE
    /\ emitted = 0
    /\ recInfo = [r \in Records |-> NoRec]
    /\ ingest = [p \in Partitions |-> <<>>]
    /\ expired = {}
    /\ slot = [p \in Partitions |-> 0]
    /\ nextBatch = 1
    /\ batch = [b \in BatchIds |-> NoBatch]
    /\ endpoint = <<>>
    /\ backup = [b \in BatchIds |-> <<>>]
    /\ errorLog = [b \in BatchIds |-> <<>>]

\* new Vpc, new LogGroup, LogDriver.awsLogs, new Cluster, HostedZone.fromLookup.
NewBaseConstructs ==
    /\ pc = "start"
    /\ pc' = "splunk"
    /\ tree' = tree \cup BaseConstructs
    /\ UNCHANGED <<ingress, response, lookup, thenRan, created, logGroups, filters,
                   pipelineVars>>

\* new SplunkService: the load balancer with its two listeners.
NewSplunkService ==
    /\ pc = "splunk"
    /\ pc' = "kinesis"
    /\ tree' = tree \cup {"SplunkService"}
    /\ ingress' = ingress \cup SplunkServiceRules
    /\ UNCHANGED <<response, lookup, thenRan, created, logGroups, filters, pipelineVars>>

\* The three allowFrom(..., 'Kinesis Ireland') on the HEC port.
AllowKinesisIreland ==
    /\ pc = "kinesis"
    /\ pc' = "nginx"
    /\ ingress' = ingress \cup KinesisRules
    /\ UNCHANGED <<tree, response, lookup, thenRan, created, logGroups, filters,
                   pipelineVars>>

\* new ApplicationLoadBalancedFargateService(this, 'NginxService', ...).
NewNginxService ==
    /\ pc = "nginx"
    /\ pc' = "lookup"
    /\ tree' = tree \cup {"NginxService"}
    /\ ingress' = ingress \cup NginxServiceRules
    /\ UNCHANGED <<response, lookup, thenRan, created, logGroups, filters, pipelineVars>>

\* A constructor that adds the deployer's rules itself, for a fixed address,
\* next to the call of getPublicIp.
CallGetPublicIpRulesOutside ==
    /\ pc = "lookup"
    /\ pc' = "pipeline"
    /\ lookup' = Pending
    /\ ingress' = ingress \cup DeployerRules(SampleIp)
    /\ UNCHANGED <<tree, response, thenRan, created, logGroups, filters, pipelineVars>>

\* getPublicIp().then(...): the request is sent and the callback registered;
\* the constructor goes on.
CallGetPublicIp ==
    /\ pc = "lookup"
    /\ pc' = "pipeline"
    /\ lookup' = Pending
    /\ UNCHANGED <<tree, ingress, response, thenRan, created, logGroups, filters,
                   pipelineVars>>

\* new CloudWatchToSplunk(this, 'CloudWatchToSplunk', {logGroups: [logGroup], ...}),
\* the last statement of the constructor.
NewCloudWatchToSplunk ==
    /\ pc = "pipeline"
    /\ pc' = "returned"
    /\ tree' = tree \cup {"CloudWatchToSplunk"}
    /\ logGroups' = {"LogGroup"}
    /\ filters' = addSubscriptionFilter({"LogGroup"})
    /\ UNCHANGED <<ingress, response, lookup, thenRan, created, pipelineVars>>

\* The lookup service answers.  The program handles the answer only once the
\* code that runs synchronously (the constructor and its caller) has finished.
FetchResponds(body) ==
    /\ pc = "returned"
    /\ lookup.state = "pending"
    /\ response = NoBody
    /\ response' = body
    /\ UNCHANGED <<pc, tree, ingress, lookup, thenRan, created, logGroups, filters,
                   pipelineVars>>

\* The request fails: fetch throws, outside the catch of getPublicIp.
FetchFails ==
    /\ pc = "returned"
    /\ lookup.state = "pending"
    /\ response = NoBody
    /\ lookup' = Rejected(<<"FetchError">>)
    /\ UNCHANGED <<pc, tree, ingress, response, thenRan, created, logGroups, filters,
                   pipelineVars>>

\* getPublicIp settles its promise from the response body.
Settle ==
    /\ lookup.state = "pending"
    /\ response # NoBody
    /\ lookup' = getPublicIp(response)
    /\ UNCHANGED <<pc, tree, ingress, response, thenRan, created, logGroups, filters,
                   pipelineVars>>

\* The callback of getPublicIp().then: it runs once the promise is resolved,
\* never when it is rejected.
ThenCallback ==
    /\ lookup.state = "resolved"
    /\ ~thenRan
    /\ thenRan' = TRUE
    /\ ingress' = ingress \cup DeployerRules(lookup.value)
    /\ UNCHANGED <<pc, tree, response, lookup, created, logGroups, filters, pipelineVars>>

\* The deployment creates a resource of the pipeline once everything it
\* depends on exists.  The template is written when the program has nothing
\* left to do: the constructor has returned and the lookup is settled.
CreateResource(res) ==
    /\ pc = "returned"
    /\ lookup.state = "rejected" \/ thenRan
    /\ "CloudWatchToSplunk" \in tree
    /\ res \in Resources \ created
    /\ DependsOn(res) \subseteq created
    /\ created' = created \cup {res}
    /\ UNCHANGED <<pc, tree, ingress, response, lookup, thenRan, logGroups, filters,
                   pipelineVars>>

StackNext ==
    \/ NewBaseConstructs
    \/ NewSplunkService
    \/ AllowKinesisIreland
    \/ NewNginxService
    \/ CallGetPublicIp
    \/ NewCloudWatchToSplunk
    \/ \E body \in LookupResponses : FetchResponds(body)
    \/ FetchFails
    \/ Settle
    \/ ThenCallback
    \/ \E res \in Resources : CreateResource(res)

StackSpec == StackInit /\ [][StackNext]_vars

\* ------------------------------------------------ the lookup on its own

\* What stands between the dots of an address in a response: octets at the
\* edges of every alternative of the expression, and texts that are none.
OctetTexts ==
    {<<"0">>, <<"0", "1">>, <<"9", "9">>, <<"1", "9", "9">>, <<"2", "4", "9">>,
     <<"2", "5", "5">>, <<"2", "5", "6">>, <<"1", "a">>, <<>>}

\* What may precede and follow the address.
Affixes == {<<>>, <<" ">>, <<"\n">>}

RECURSIVE JoinDots(_)
JoinDots(parts) ==
    IF Len(parts) = 0 THEN <<>>
    ELSE IF Len(parts) = 1 THEN parts[1]
    ELSE parts[1] \o <<".">> \o JoinDots(Tail(parts))

\* The texts of at most n dot-separated parts, with what surrounds them.
AddressTexts(n) ==
    {pre \o JoinDots(parts) \o post :
        pre \in Affixes, post \in Affixes,
        parts \in UNION {[1..k -> OctetTexts] : k \in 1..n}}

\* The response bodies: an object whose field ip is a string or an array of
\* one string, an object whose ip is a number, an object without ip, the
\* value null, and a body that is not JSON.
ResponseBodies(n) ==
    {Body("object", Field(type, text)) : type \in {"string", "array"}, text \in AddressTexts(n)}
        \cup {Body("object", Field("number", <<"1">>)), Body("object", NoField),
              Body("null", NoField), Body("notjson", NoField)}

\* getPublicIp has been called and the lookup service has answered.
IpInit ==
    /\ pc = "returned"
    /\ tree = AllConstructs
    /\ ingress = SplunkServiceRules \cup KinesisRules \cup NginxServiceRules
    /\ response \in ResponseBodies(MaxParts)
    /\ lookup = Pending
    /\ thenRan = FALSE
    /\ created = {}
    /\ logGroups = {"LogGroup"}
    /\ filters = addSubscriptionFilter(logGroups)
    /\ indexerAck = FALSE
    /\ emitted = 0
    /\ recInfo = [r \in Records |-> NoRec]
    /\ ingest = [p \in Partitions |-> <<>>]
    /\ expired = {}
    /\ slot = [p \in Partitions |-> 0]
    /\ nextBatch = 1
    /\ batch = [b \in BatchIds |-> NoBatch]
    /\ endpoint = <<>>
    /\ backup = [b \in BatchIds |-> <<>>]
    /\ errorLog = [b \in BatchIds |-> <<>>]

IpNext == Settle

IpSpec == IpInit /\ [][IpNext]_vars

\* ------------------------------------------------- what the claims speak of

\* How often the endpoint accepted record r.
Occ(log, r) == Cardinality({i \in 1..Len(log) : log[i] = r})

\* The positions of the first and the last acceptance of record r by the endpoint.
FirstPos(r) == CHOOSE i \in 1..Len(endpoint) :
                   endpoint[i] = r /\ \A j \in 1..(i - 1) : endpoint[j] # r
LastPos(r) == CHOOSE i \in 1..Len(endpoint) :
                  endpoint[i] = r /\ \A j \in (i + 1)..Len(endpoint) : endpoint[j] # r

\* The backup objects that hold record r, as <<batch, index>>.
BackupObjectsWith(r) == BackupObjectsWithIn(backup, r)

Terminal(b) == batch[b].stage \in {"Delivered", "BackedUp"}
InFlight(b) == batch[b].stage \in {"Buffered", "Pending", "Retrying"}

\* C1: every record the endpoint accepted belongs to a batch on which the
\* Transform Function was invoked and succeeded, and was returned by it for
\* forwarding; nothing reaches the endpoint past the transform step.
C1_ForwardedOnlyAfterTransform ==
    \A i \in 1..Len(endpoint) :
        \E b \in BatchIds : /\ endpoint[i] \in Range(batch[b].recs)
                            /\ batch[b].transform = "Ok"
                            /\ batch[b].disp[endpoint[i]] = "Ok"

\* C1 witness: a record of a two-record batch reached the endpoint.
C1_Witness ==
    \E b \in BatchIds : /\ Len(batch[b].recs) = 2
                        /\ batch[b].stage = "Delivered"
                        /\ \E i \in 1..Len(endpoint) : endpoint[i] \in Range(batch[b].recs)

\* C2: a batch on which the Transform Function failed is in the backup bucket
\* exactly once, whole, has exactly one entry in the error log, and none of
\* its records ever reached the endpoint.
C2_TransformFailureBackedUpOnce ==
    \A b \in BatchIds :
        batch[b].transform = "Failed" =>
            /\ backup[b] = <<batch[b].recs>>
            /\ Len(errorLog[b]) = 1
            /\ \A r \in Range(batch[b].recs) : Occ(endpoint, r) = 0
            /\ \A r \in Range(batch[b].recs) : Cardinality(BackupObjectsWith(r)) = 1

\* C2 witness: the transform failed on a batch of two records.
C2_Witness ==
    \E b \in BatchIds : /\ batch[b].transform = "Failed"
                        /\ Len(batch[b].recs) = 2
                        /\ batch[b].stage = "BackedUp"
                        /\ backup[b] = <<batch[b].recs>>

\* The records of batch b that were held for forwarding are in no backup object.
NotInBackup(b) ==
    \A r \in Range(Fwd(b)) : BackupObjectsWith(r) = {}

\* C3 as stated: a batch that the transform returned and the endpoint
\* accepted is never in the backup bucket.
C3_AcceptedNeverBackedUp ==
    \A b \in BatchIds :
        (batch[b].transform = "Ok" /\ batch[b].accepts > 0) => NotInBackup(b)

\* C3 as amended: a batch that the transform returned and whose acceptance by
\* the endpoint the pipeline registered is never in the backup bucket, also
\* when earlier attempts failed and were retried.  (A batch the endpoint
\* accepted while every acknowledgement was lost is retried and, the budget
\* spent, backed up like a failed one.)
C3_RegisteredDeliveryNeverBackedUp ==
    \A b \in BatchIds :
        (batch[b].transform = "Ok" /\ batch[b].accepts > 0 /\ batch[b].stage = "Delivered")
            => NotInBackup(b)

\* C3 witness: a batch was delivered on a retry, after an attempt that the
\* endpoint refused, and is not in the backup bucket.
C3_Witness ==
    \E b \in BatchIds : /\ batch[b].stage = "Delivered"
                        /\ batch[b].retries > 0
                        /\ batch[b].downSeen
                        /\ Fwd(b) # <<>>
                        /\ \A r \in Range(Fwd(b)) : Occ(endpoint, r) > 0
                        /\ NotInBackup(b)

\* C4: a batch whose delivery attempts all met an endpoint that was
\* unreachable or answered without success, until the retry budget was
\* spent, is in the backup bucket and has a failure entry in the error log.
C4_ExhaustedRetriesBackedUpAndLogged ==
    \A b \in BatchIds :
        (batch[b].sends = RetryBudget + 1 /\ batch[b].accepts = 0) =>
            /\ batch[b].stage = "BackedUp"
            /\ \E i \in 1..Len(backup[b]) : backup[b][i] = Fwd(b)
            /\ \E i \in 1..Len(errorLog[b]) : errorLog[b][i] = "Splunk.ConnectionFailed"

\* C4 witness: every attempt of a batch failed and the budget is spent.
C4_Witness ==
    \E b \in BatchIds : /\ batch[b].sends = RetryBudget + 1
                        /\ batch[b].accepts = 0
                        /\ batch[b].stage = "BackedUp"
                        /\ backup[b] # <<>>

\* The records of batch b that the pipeline had to deliver or keep: all of
\* them when the transform failed, else those it did not drop.
Kept(b) ==
    IF batch[b].transform = "Failed" THEN Range(batch[b].recs)
    ELSE {r \in Range(batch[b].recs) : batch[b].disp[r] # "Dropped"}

\* C5: a batch that was not delivered is in the backup bucket exactly once:
\* no record of any batch is ever in two backup objects; once a batch has
\* ended, each record it had to deliver or keep is in exactly one backup
\* object unless its delivery was registered; and when a batch ends
\* undelivered, each such record is in exactly one backup object and what
\* remained to forward is one object.  What is in the backup bucket stays
\* there unchanged.
C5_UndeliveredBackedUpExactlyOnce ==
    /\ [](/\ \A r \in Records : Cardinality(BackupObjectsWith(r)) <= 1
          /\ \A b \in BatchIds :
                Terminal(b) =>
                    \A r \in Kept(b) :
                        \/ Cardinality(BackupObjectsWith(r)) = 1
                        \/ batch[b].stage = "Delivered" /\ r \in Range(Fwd(b))
                                                        /\ Occ(endpoint, r) > 0
          /\ \A b \in BatchIds :
                batch[b].stage = "BackedUp" =>
                    /\ \A r \in Kept(b) : Cardinality(BackupObjectsWith(r)) = 1
                    /\ batch[b].transform = "Ok" /\ Fwd(b) # <<>> =>
                          Cardinality({i \in 1..Len(backup[b]) : backup[b][i] = Fwd(b)}) = 1)
    /\ [][\A b \in BatchIds : /\ Len(backup'[b]) >= Len(backup[b])
                                /\ SubSeq(backup'[b], 1, Len(backup[b])) = backup[b]]_vars

\* C5 witness: two batches ended undelivered, one on a failed transform and
\* one on spent retries after a lost acknowledgement and a refused attempt.
C5_Witness ==
    \E b, c \in BatchIds : /\ batch[b].stage = "BackedUp"
                           /\ batch[b].transform = "Failed"
                           /\ batch[c].stage = "BackedUp"
                           /\ batch[c].transform = "Ok"
                           /\ batch[c].sends = RetryBudget + 1
                           /\ batch[c].downSeen

SameLogStream(r1, r2) ==
    /\ recInfo[r1].group = recInfo[r2].group
    /\ recInfo[r1].stream = recInfo[r2].stream

C7_AtLeastOnce ==
    /\ [](\A b \in BatchIds :
             batch[b].transform = "Ok" =>
                 \A r \in Range(Fwd(b)) :
                     Occ(endpoint, r) = batch[b].ackLost
                                        + (IF batch[b].stage = "Delivered" THEN 1 ELSE 0))
    /\ [][(indexerAck /\ endpoint' # endpoint) =>
              \E b \in BatchIds : /\ batch[b].stage \in {"Pending", "Retrying"}
                                  /\ batch'[b].stage = "Delivered"
                                  /\ batch'[b].ackLost = batch[b].ackLost
                                  /\ endpoint' = endpoint \o Fwd(b)]_vars

\* C7 witness, the claimed execution: the endpoint accepted a batch, the
\* acknowledgement was lost, and the same batch was sent and accepted again.
C7_Witness ==
    \E b \in BatchIds : /\ batch[b].ackLost >= 1
                        /\ batch[b].accepts >= 2
                        /\ batch[b].stage = "Delivered"
                        /\ \E r \in Range(Fwd(b)) : Occ(endpoint, r) >= 2

\* Where an emitted record is: unread in its partition, expired, or in a batch.
InStream(r) ==
    \/ \E p \in Partitions : r \in Range(ingest[p])
    \/ r \in expired
    \/ \E b \in BatchIds : r \in Range(batch[b].recs)

\* C8: each log group of props.logGroups has exactly one subscription filter,
\* its pattern matches every event and its destination is the ingest stream the
\* delivery stream reads; and every log event emitted in such a log group was
\* put in that stream.  The subscriptions do not change while the pipeline runs.
C8_AllEventsToIngestStream ==
    /\ [](/\ \A g \in logGroups :
                /\ Cardinality({f \in filters : f.logGroup = g}) = 1
                /\ \A f \in filters :
                      f.logGroup = g => /\ \A k \in EventKinds : PatternMatches(f.filterPattern, k)
                                        /\ f.destination = KinesisStreamArn
          /\ \A r \in 1..emitted :
                recInfo[r].group \in logGroups => recInfo[r].forwarded /\ InStream(r))
    /\ [][logGroups' = logGroups /\ filters' = filters]_vars

\* C8 witness: both log groups were passed, each emitted an event, and both
\* events were read from the ingest stream.
C8_Witness ==
    /\ logGroups = CandidateLogGroups
    /\ \A g \in CandidateLogGroups :
          \E r \in 1..emitted : /\ recInfo[r].group = g
                                /\ recInfo[r].forwarded
                                /\ \E b \in BatchIds : r \in Range(batch[b].recs)

\* C9: a failure stays with its batch.  A record that is in the backup bucket
\* is never sent to the endpoint again, and a backed-up batch never changes;
\* and every batch that was transformed and met no refusing endpoint in any of
\* its attempts was accepted by the endpoint, whatever happened to batches
\* before it.
C9_FailureIsTerminalForItsBatchOnly ==
    /\ [](\A b \in BatchIds :
             (Terminal(b) /\ batch[b].transform = "Ok" /\ ~batch[b].downSeen) =>
                 \A r \in Range(Fwd(b)) : Occ(endpoint, r) > 0)
    /\ [][\A b \in BatchIds :
             /\ batch[b].stage = "BackedUp" => batch'[b] = batch[b]
             /\ \A r \in Range(batch[b].recs) :
                   BackupObjectsWith(r) # {} => Occ(endpoint', r) = Occ(endpoint, r)]_vars

\* C9 witness, scenario 3: a batch was backed up after meeting a refusing
\* endpoint in every attempt; the next batch of the same partition met a
\* recovered endpoint and was delivered; the backed-up batch was not sent again.
C9_Witness ==
    \E b, c \in BatchIds :
        /\ b < c
        /\ batch[b].part = batch[c].part
        /\ batch[b].stage = "BackedUp"
        /\ batch[b].sends = RetryBudget + 1
        /\ batch[b].accepts = 0
        /\ backup[b] = <<Fwd(b)>>
        /\ batch[c].stage = "Delivered"
        /\ ~batch[c].downSeen
        /\ endpoint = Fwd(c)
        /\ Fwd(c) # <<>>

\* The steps of the retry state machine Pending -> Retrying(n) -> Delivered | Backed-up.
StageStep(x, y) ==
    \/ x.stage = y.stage /\ x.retries = y.retries
    \/ x.stage = "None" /\ y.stage = "Buffered" /\ y.retries = 0
    \/ x.stage = "Buffered" /\ y.stage \in {"Pending", "Delivered", "BackedUp"} /\ y.retries = 0
    \/ /\ x.stage \in {"Pending", "Retrying"}
       /\ \/ y.stage = "Retrying" /\ y.retries = x.retries + 1
          \/ y.stage \in {"Delivered", "BackedUp"} /\ y.retries = x.retries

\* C10: every batch read from the ingest stream ends in exactly one of the
\* states Delivered and Backed-up and stays there; it gets there by the steps
\* of the retry state machine, its retry count never exceeds the retry
\* budget, and under the fairness of the pipeline's steps no batch stays
\* buffered, pending or retrying forever.
C10_EveryBatchTerminates ==
    /\ [](\A b \in BatchIds :
             /\ batch[b].retries <= RetryBudget
             /\ batch[b].sends <= RetryBudget + 1
             /\ batch[b].stage = "Retrying" => batch[b].retries >= 1)
    /\ [][\A b \in BatchIds :
             /\ StageStep(batch[b], batch'[b])
             /\ Terminal(b) => batch'[b].stage = batch[b].stage]_vars
    /\ \A b \in BatchIds : InFlight(b) ~> Terminal(b)

\* C10 witness: a batch ended delivered on its last permitted attempt and
\* another ended backed up with the budget spent.
C10_Witness ==
    \E b, c \in BatchIds : /\ batch[b].stage = "Delivered"
                           /\ batch[b].retries = RetryBudget
                           /\ batch[c].stage = "BackedUp"
                           /\ batch[c].retries = RetryBudget
                           /\ batch[c].sends = RetryBudget + 1

\* C11: when the transform succeeded on a batch its dispositions are honoured
\* record by record.  A record tagged Dropped is neither at the endpoint nor in
\* the backup bucket; a record tagged ProcessingFailed is in the backup bucket,
\* in the object written for the batch's failed records, and never at the
\* endpoint; the records tagged Ok are at the endpoint once the batch is
\* delivered, and whatever the endpoint accepts in one step is exactly the
\* Ok records of one batch, in batch order.
C11_DispositionsHonoured ==
    /\ [](\A b \in BatchIds :
             batch[b].transform = "Ok" =>
                 \A r \in Range(batch[b].recs) :
                     /\ batch[b].disp[r] = "Dropped" =>
                            Occ(endpoint, r) = 0 /\ BackupObjectsWith(r) = {}
                     /\ batch[b].disp[r] = "ProcessingFailed" =>
                            /\ Occ(endpoint, r) = 0
                            /\ BackupObjectsWith(r) = {<<b, 1>>}
                     /\ (batch[b].disp[r] = "Ok" /\ batch[b].stage = "Delivered") =>
                            Occ(endpoint, r) > 0)
    /\ [][endpoint' # endpoint =>
              \E b \in BatchIds :
                  /\ batch[b].transform = "Ok"
                  /\ endpoint' = endpoint \o
                        SelectSeq(batch[b].recs, LAMBDA r : batch[b].disp[r] = "Ok")]_vars

\* C11 witness, partial-batch success: of a batch of two records the
\* transform tagged one Ok and one ProcessingFailed; the first is at the
\* endpoint and the second in the backup bucket.
C11_Witness ==
    \E b \in BatchIds :
        /\ batch[b].transform = "Ok"
        /\ batch[b].stage = "Delivered"
        /\ \E r1, r2 \in Range(batch[b].recs) :
              /\ batch[b].disp[r1] = "Ok"
              /\ batch[b].disp[r2] = "ProcessingFailed"
              /\ endpoint = <<r1>>
              /\ backup[b] = <<(<<r2>>)>>

\* C12: a record that outlived the retention window unread is lost for good.
\* It is in no partition of the ingest stream and in no batch, the endpoint
\* never accepted it, no backup object holds it, and it stays expired.
C12_ExpiredRecordsAreLost ==
    /\ [](\A r \in expired :
             /\ recInfo[r].forwarded
             /\ \A p \in Partitions : r \notin Range(ingest[p])
             /\ \A b \in BatchIds : r \notin Range(batch[b].recs)
             /\ Occ(endpoint, r) = 0
             /\ BackupObjectsWith(r) = {})
    /\ [][expired \subseteq expired']_vars

\* C12 witness: the endpoint refused every attempt of a batch until the
\* batch was backed up; meanwhile the next record of the same partition
\* expired unread, and is neither at the endpoint nor in the backup bucket.
C12_Witness ==
    \E r \in expired, b \in BatchIds :
        /\ batch[b].part = PartitionOf(recInfo[r].group, recInfo[r].stream, r)
        /\ batch[b].downSeen
        /\ batch[b].accepts = 0
        /\ batch[b].stage = "BackedUp"
        /\ \A q \in Range(batch[b].recs) : q < r
        /\ Occ(endpoint, r) = 0
        /\ BackupObjectsWith(r) = {}

\* The value of a text of decimal digits.
DigitValue(c) == CHOOSE n \in 0..9 : <<"0", "1", "2", "3", "4", "5", "6", "7", "8", "9">>[n + 1] = c

\* A decimal octet: one to three digits, no leading zero, at most 255.
IsOctet(t) ==
    /\ Len(t) \in 1..3
    /\ \A i \in 1..Len(t) : t[i] \in Digits
    /\ Len(t) > 1 => t[1] # "0"
    /\ (IF Len(t) = 1 THEN DigitValue(t[1])
        ELSE IF Len(t) = 2 THEN 10 * DigitValue(t[1]) + DigitValue(t[2])
        ELSE 100 * DigitValue(t[1]) + 10 * DigitValue(t[2]) + DigitValue(t[3])) <= 255

\* An IPv4 address: exactly four octets separated by three dots.
IsIPv4(s) ==
    LET dots == {i \in 1..Len(s) : s[i] = "."}
    IN \E i, j, k \in dots :
          /\ i < j /\ j < k
          /\ dots = {i, j, k}
          /\ IsOctet(SubSeq(s, 1, i - 1))
          /\ IsOctet(SubSeq(s, i + 1, j - 1))
          /\ IsOctet(SubSeq(s, j + 1, k - 1))
          /\ IsOctet(SubSeq(s, k + 1, Len(s)))

\* 34.241.197.32/27, 34.241.197.64/27 and 34.241.197.96/27.
KinesisIrelandCidrs ==
    {<<"3", "4", ".", "2", "4", "1", ".", "1", "9", "7", ".", "3", "2", "/", "2", "7">>,
     <<"3", "4", ".", "2", "4", "1", ".", "1", "9", "7", ".", "6", "4", "/", "2", "7">>,
     <<"3", "4", ".", "2", "4", "1", ".", "1", "9", "7", ".", "9", "6", "/", "2", "7">>}

\* C13: the load balancers are never open to arbitrary sources.  Every
\* ingress rule, in every state of the stack's construction and deployment,
\* either admits one of the three Kinesis Ireland ranges on port 8088 of the
\* Splunk load balancer, or admits the address the lookup resolved to, a
\* valid IPv4 address, as a /32 on port 8000 or 8088 of the Splunk load
\* balancer or on port 80 of the nginx load balancer.
C13_IngressOnlyKinesisAndDeployer ==
    \A r \in ingress :
        \/ /\ r.lb = "SplunkService"
           /\ r.port = 8088
           /\ r.peer \in KinesisIrelandCidrs
        \/ /\ lookup.state = "resolved"
           /\ IsIPv4(StringOf(lookup.value))
           /\ r.peer = StringOf(lookup.value) \o <<"/", "3", "2">>
           /\ <<r.lb, r.port>> \in {<<"SplunkService", 8000>>, <<"SplunkService", 8088>>,
                                    <<"NginxService", 80>>}

\* C13 witness: the stack is deployed with all its rules: the three Kinesis
\* ranges and the deployer's address on each of the three ports.
C13_Witness ==
    /\ thenRan
    /\ created = Resources
    /\ Cardinality(ingress) = 6
    /\ Cardinality({r \in ingress : r.port = 8088}) = 4
    /\ \E r \in ingress : r.lb = "SplunkService" /\ r.port = 8000
    /\ \E r \in ingress : r.lb = "NginxService" /\ r.port = 80

\* C14: the delivery stream is created only after the permissions it needs
\* to read the ingest stream are in place.  In every order of creation the
\* dependencies allow, at the step that creates the delivery stream the role
\* exists and carries kinesis:DescribeStream, kinesis:GetShardIterator and
\* kinesis:GetRecords on the ingest stream, and so it is ever after.
C14_RoleWithIngestBeforeDeliveryStream ==
    /\ [][("DeliveryStream" \notin created /\ "DeliveryStream" \in created') =>
              /\ "DeliveryStreamRole" \in created
              /\ {<<"kinesis:DescribeStream", "IngestStream">>,
                  <<"kinesis:GetShardIterator", "IngestStream">>,
                  <<"kinesis:GetRecords", "IngestStream">>} \subseteq PermissionsIn(created)]_vars
    /\ []("DeliveryStream" \in created =>
              /\ "DeliveryStreamRole" \in created
              /\ IngestStatements \subseteq PermissionsIn(created))

\* C14 witness: the delivery stream exists, created after the role with its
\* 'Ingest' policy, while the role's default policy with the three grants
\* does not exist yet.
C14_Witness ==
    /\ "DeliveryStream" \in created
    /\ "DeliveryStreamRole" \in created
    /\ "DeliveryStreamRoleDefaultPolicy" \notin created
    /\ IngestStatements \subseteq PermissionsIn(created)
    /\ GrantStatements \cap PermissionsIn(created) = {}

\* The ingress rules that are not one of the Kinesis Ireland rules.
DeployerRulesIn(rules) ==
    {r \in rules : ~(r.lb = "SplunkService" /\ r.port = 8088 /\ r.peer \in KinesisIrelandCidrs)}

\* C16: the constructor does not wait for the lookup.  When it returns the
\* promise is still pending and no deployer rule exists; the deployer rules
\* appear only in one step, the callback, taken when the constructor has
\* returned and the promise is resolved, and they are the three rules for the
\* resolved address; and when the promise is rejected the callback never
\* ran, no deployer rule exists, and the three Kinesis rules and the pipeline
\* construct with its subscription filter are there.
C16_DeployerRulesOnlyInCallback ==
    /\ [][(pc # "returned" /\ pc' = "returned") =>
              /\ lookup'.state = "pending"
              /\ ~thenRan'
              /\ DeployerRulesIn(ingress') = {}]_vars
    /\ [][DeployerRulesIn(ingress') # DeployerRulesIn(ingress) =>
              /\ pc = "returned"
              /\ lookup.state = "resolved"
              /\ ~thenRan /\ thenRan'
              /\ DeployerRulesIn(ingress) = {}
              /\ DeployerRulesIn(ingress') = DeployerRules(lookup.value)]_vars
    /\ [](lookup.state = "rejected" =>
              /\ pc = "returned"
              /\ ~thenRan
              /\ DeployerRulesIn(ingress) = {}
              /\ Cardinality(ingress) = 3
              /\ {r.peer : r \in ingress} = KinesisIrelandCidrs
              /\ "CloudWatchToSplunk" \in tree
              /\ logGroups = {"LogGroup"}
              /\ Cardinality(filters) = 1)

\* C16 witness: getPublicIp rejected with its own error; the stack has the
\* three Kinesis rules and no other, and the pipeline construct with its
\* subscription filter is there.
C16_Witness ==
    /\ lookup.state = "rejected"
    /\ lookup.message[1] = CouldntGet
    /\ ~thenRan
    /\ Cardinality(ingress) = 3
    /\ {r.peer : r \in ingress} = KinesisIrelandCidrs
    /\ tree = AllConstructs
    /\ filters = addSubscriptionFilter({"LogGroup"})

\* C15: getPublicIp resolves to the field ip of the response exactly when
\* that field is a string of four dot-separated decimal octets, each in
\* 0..255 and without leading zeros; for every other response body it
\* rejects with an error whose message starts with "Couldn't get your public
\* IP: ".
C15_ResolvesOnlyValidIPv4 ==
    lookup.state # "pending" =>
        IF /\ response.kind = "object"
           /\ response.ip.type = "string"
           /\ IsIPv4(response.ip.text)
        THEN lookup = Resolved(response.ip)
        ELSE /\ lookup.state = "rejected"
             /\ lookup.message[1] = "Couldn't get your public IP: "

====
